---- MODULE Spec2Model ----
(***************************************************************************)
(* Swell Strike: the condition-aggregation and strike-detection engine.    *)
(*                                                                         *)
(*   server.js            buoy refresh cycles, cache, query handlers       *)
(*   ski-data-fetcher.js  ski fallback chain (NOAA, OpenWeather), scoring  *)
(*   database_schema.sql  strikes table, calculate_surf_score,             *)
(*                        calculate_ski_score                              *)
(*                                                                         *)
(* Numbers.  JavaScript numbers and SQL DECIMALs are modelled as exact     *)
(* rationals [k |-> "num", n, d] (d > 0, lowest terms); NaN, undefined and *)
(* SQL NULL are values of the same record shape with another kind k.  Any  *)
(* ordering comparison with a non-number is false, as in JavaScript, and   *)
(* not true, as in an SQL IF.                                              *)
(***************************************************************************)
EXTENDS Integers, Sequences, FiniteSets, TLC

\* ---- bounds of the model ----
\* invocations of fetchAllBuoys per run: the one init awaits, then timer firings
MaxCycles == 3

\* refresh cycles the strike detector is followed through
MaxStrikeCycles == 4

VARIABLES
  program,      \* which entry point runs: "server", "ski", "score", "strike"
  call,         \* a scoring function applied to one argument tuple
  buoyCache,    \* server.js:33  buoyId -> cached entry
  lastUpdate,   \* server.js:35  NoDate, or the time of the last completed cycle
  now,          \* the wall clock read by new Date()
  initPc,       \* position of init(): "start", "awaiting", "listening"
  cycles,       \* the invocations of fetchAllBuoys, in start order
  lastCycle,    \* history: what the most recently completed cycle attempted and saw fail
  lastGood,     \* history: per buoy, the entry of its latest successful fetch in a completed cycle
  OPENWEATHER_KEY,  \* ski-data-fetcher.js:7  whether process.env.OPENWEATHER_API_KEY is set
  skiPc,        \* position of fetchAllSkiData: "idle", "resort", "fallback", "sleep", "done"
  skiIdx,       \* index of the resort the loop is at
  skiResults,   \* the results array of fetchAllSkiData
  skiLog,       \* history: the adapter calls made, in order
  strikeEvents, \* the strike events recorded so far, open and closed (the strikes table)
  strikeClock,  \* the number of the refresh cycle the detector is in
  strikePos,    \* index of the location the cycle is at
  strikeSilent, \* per location, the consecutive cycles without a reading
  scoreLog,     \* history: per location, what each cycle delivered (a score, or NoScore)
  response      \* what the step just taken sent out: an HTTP response of server.js, the
                \* strikes the CLI printed, or NoResponse

serverVars == <<buoyCache, lastUpdate, now, initPc, cycles, lastCycle, lastGood>>

skiVars == <<OPENWEATHER_KEY, skiPc, skiIdx, skiResults, skiLog>>

strikeVars == <<strikeEvents, strikeClock, strikePos, strikeSilent, scoreLog>>

vars == <<program, call, serverVars, skiVars, strikeVars, response>>

----------------------------------------------------------------------------
(* Numbers *)

Abs(x) == IF x < 0 THEN -x ELSE x

Max(a, b) == IF a >= b THEN a ELSE b

Min(a, b) == IF a <= b THEN a ELSE b

RECURSIVE GCD(_, _)
GCD(a, b) == IF b = 0 THEN a ELSE GCD(b, a % b)

Num(n, d) ==
  LET g == GCD(Abs(n), Abs(d))
      s == IF d < 0 THEN -1 ELSE 1
  IN [k |-> "num", n |-> (s * n) \div g, d |-> (s * d) \div g]

Z(n) == [k |-> "num", n |-> n, d |-> 1]

NaN == [k |-> "NaN", n |-> 0, d |-> 1]

Undefined == [k |-> "undefined", n |-> 0, d |-> 1]

Null == [k |-> "NULL", n |-> 0, d |-> 1]

IsNum(v) == v.k = "num"

\* a * b, cancelling across the two fractions before multiplying
Mul(a, b) ==
  IF ~IsNum(a) THEN (IF a.k = "NULL" THEN Null ELSE NaN)
  ELSE IF ~IsNum(b) THEN (IF b.k = "NULL" THEN Null ELSE NaN)
  ELSE LET g1 == GCD(Abs(a.n), b.d)
           g2 == GCD(Abs(b.n), a.d)
       IN Num((a.n \div g1) * (b.n \div g2), (a.d \div g2) * (b.d \div g1))

Div(a, b) ==
  IF ~IsNum(a) \/ ~IsNum(b) THEN NaN
  ELSE IF b.n = 0 THEN NaN
  ELSE Mul(a, Num(b.d, b.n))

Add(a, b) ==
  IF ~IsNum(a) \/ ~IsNum(b) THEN NaN
  ELSE Num(a.n * b.d + b.n * a.d, a.d * b.d)

Lt(a, b) == IsNum(a) /\ IsNum(b) /\ a.n * b.d < b.n * a.d

Le(a, b) == IsNum(a) /\ IsNum(b) /\ a.n * b.d <= b.n * a.d

Gt(a, b) == Lt(b, a)

Ge(a, b) == Le(b, a)

\* JavaScript truthiness of a numeric-or-missing value: 0, NaN, undefined are falsy
Truthy(v) == IsNum(v) /\ v.n # 0

\* a || b
Or(a, b) == IF Truthy(a) THEN a ELSE b

----------------------------------------------------------------------------
(* server.js: calculateSurfScore *)

FeetPerMetre == Num(328084, 100000)

MphPerMps == Num(2237, 1000)

\* mutation: the lower clamp is lost
Clamp_noFloor(score) == Min(100, score)

\* Math.max(0, Math.min(100, score))
Clamp(score) == Max(0, Min(100, score))

\* mutation: the first band stops short of 10 ft
heightBands_open10(heightFeet) ==
  << Ge(heightFeet, Z(4)) /\ Lt(heightFeet, Z(10)),
     Ge(heightFeet, Z(2)) /\ Lt(heightFeet, Z(4)),
     Gt(heightFeet, Z(10)) /\ Le(heightFeet, Z(15)) >>

\* mutation: the second band reaches up to and including 4 ft
heightBands_overlap4(heightFeet) ==
  << Ge(heightFeet, Z(4)) /\ Le(heightFeet, Z(10)),
     Ge(heightFeet, Z(2)) /\ Le(heightFeet, Z(4)),
     Gt(heightFeet, Z(10)) /\ Le(heightFeet, Z(15)) >>

\* the three conditions of the height if / else-if chain, in order
heightBands(heightFeet) ==
  << Ge(heightFeet, Z(4)) /\ Le(heightFeet, Z(10)),
     Ge(heightFeet, Z(2)) /\ Lt(heightFeet, Z(4)),
     Gt(heightFeet, Z(10)) /\ Le(heightFeet, Z(15)) >>

heightBandPoints == <<40, 25, 30>>

\* first matching branch of the chain, 0 when none matches
heightPoints(heightFeet) ==
  LET b == heightBands(heightFeet)
  IN IF b[1] THEN heightBandPoints[1]
     ELSE IF b[2] THEN heightBandPoints[2]
     ELSE IF b[3] THEN heightBandPoints[3]
     ELSE 0

periodPoints(dominantPeriod) ==
  IF Ge(dominantPeriod, Z(12)) THEN 30
  ELSE IF Ge(dominantPeriod, Z(10)) THEN 20
  ELSE IF Ge(dominantPeriod, Z(8)) THEN 10
  ELSE 0

\* mutation: a wind below 10 mph gives 10 points
windPoints_calm10(windMph) ==
  IF Lt(windMph, Z(15)) THEN 10 ELSE -10

windPoints(windMph) ==
  IF Lt(windMph, Z(10)) THEN 20
  ELSE IF Lt(windMph, Z(15)) THEN 10
  ELSE -10

avgPeriodPoints(avgPeriod) == IF Ge(avgPeriod, Z(8)) THEN 10 ELSE 0

calculateSurfScore(data) ==
  LET heightFeet == Mul(data.waveHeight, FeetPerMetre)
      windMph == Mul(data.windSpeed, MphPerMps)
  IN Clamp(heightPoints(heightFeet) + periodPoints(data.dominantPeriod)
           + windPoints(windMph) + avgPeriodPoints(data.avgPeriod))

----------------------------------------------------------------------------
(* server.js: calculateSkiScore(weatherData, snowData), optional chaining *)

OptGet(obj, f) == IF obj.present THEN obj[f] ELSE Undefined

calculateSkiScore_server(weatherData, snowData) ==
  LET fresh == OptGet(snowData, "freshSnow24h")
      temp == OptGet(weatherData, "temp")
      wind == OptGet(weatherData, "windSpeed")
      base == OptGet(snowData, "baseDepth")
      s1 == IF Ge(fresh, Z(12)) THEN 40 ELSE IF Ge(fresh, Z(6)) THEN 25 ELSE 0
      s2 == IF Lt(temp, Z(32)) /\ Gt(temp, Z(10)) THEN 20 ELSE 0
      s3 == IF Lt(wind, Z(20)) THEN 20 ELSE IF Lt(wind, Z(30)) THEN 10 ELSE 0
      s4 == IF Ge(base, Z(60)) THEN 20 ELSE 0
  IN Clamp(s1 + s2 + s3 + s4)

----------------------------------------------------------------------------
(* ski-data-fetcher.js: calculateSkiScore(data) *)

calculateSkiScore(data) ==
  LET tempF == Add(Div(Mul(data.temp, Z(9)), Z(5)), Z(32))
      windMph == Mul(data.windSpeed, MphPerMps)
      s1 == IF Ge(data.snow24h, Z(12)) THEN 40
            ELSE IF Ge(data.snow24h, Z(8)) THEN 30
            ELSE IF Ge(data.snow24h, Z(4)) THEN 20
            ELSE IF Ge(data.snow48h, Z(18)) THEN 25
            ELSE IF Ge(data.snow48h, Z(12)) THEN 15
            ELSE 0
      s2 == IF Lt(tempF, Z(32)) /\ Gt(tempF, Z(15)) THEN 20
            ELSE IF Lt(tempF, Z(15)) THEN 15
            ELSE IF Lt(tempF, Z(35)) THEN 10
            ELSE 0
      s3 == IF Lt(windMph, Z(15)) THEN 20
            ELSE IF Lt(windMph, Z(25)) THEN 10
            ELSE IF Gt(windMph, Z(40)) THEN -10
            ELSE 0
      s4 == IF Ge(data.snow24h, Z(6)) /\ Lt(tempF, Z(28)) THEN 10 ELSE 0
      s5 == IF Ge(data.snow48h, Z(20)) THEN 10 ELSE 0
  IN Clamp(s1 + s2 + s3 + s4 + s5)

----------------------------------------------------------------------------
(* database_schema.sql: calculate_surf_score, calculate_ski_score *)

\* GREATEST(0, LEAST(100, score))
GreatestLeast(score) == Max(0, Min(100, score))

\* mutation: the 40-point band opens above 4 ft
calculate_surf_score_above4(wave_height, dominant_period, wind_speed, avg_period) ==
  LET height_feet == Mul(wave_height, FeetPerMetre)
      wind_mph == Mul(wind_speed, MphPerMps)
      s1 == IF Gt(height_feet, Z(4)) /\ Le(height_feet, Z(10)) THEN 40
            ELSE IF Ge(height_feet, Z(2)) /\ Lt(height_feet, Z(4)) THEN 25
            ELSE IF Gt(height_feet, Z(10)) /\ Le(height_feet, Z(15)) THEN 30
            ELSE 0
      s2 == IF Ge(dominant_period, Z(12)) THEN 30
            ELSE IF Ge(dominant_period, Z(10)) THEN 20
            ELSE IF Ge(dominant_period, Z(8)) THEN 10
            ELSE 0
      s3 == IF Lt(wind_mph, Z(10)) THEN 20
            ELSE IF Lt(wind_mph, Z(15)) THEN 10
            ELSE -10
      s4 == IF Ge(avg_period, Z(8)) THEN 10 ELSE 0
  IN GreatestLeast(s1 + s2 + s3 + s4)

calculate_surf_score(wave_height, dominant_period, wind_speed, avg_period) ==
  LET height_feet == Mul(wave_height, FeetPerMetre)
      wind_mph == Mul(wind_speed, MphPerMps)
      s1 == IF Ge(height_feet, Z(4)) /\ Le(height_feet, Z(10)) THEN 40
            ELSE IF Ge(height_feet, Z(2)) /\ Lt(height_feet, Z(4)) THEN 25
            ELSE IF Gt(height_feet, Z(10)) /\ Le(height_feet, Z(15)) THEN 30
            ELSE 0
      s2 == IF Ge(dominant_period, Z(12)) THEN 30
            ELSE IF Ge(dominant_period, Z(10)) THEN 20
            ELSE IF Ge(dominant_period, Z(8)) THEN 10
            ELSE 0
      s3 == IF Lt(wind_mph, Z(10)) THEN 20
            ELSE IF Lt(wind_mph, Z(15)) THEN 10
            ELSE -10
      s4 == IF Ge(avg_period, Z(8)) THEN 10 ELSE 0
  IN GreatestLeast(s1 + s2 + s3 + s4)

calculate_ski_score(snow_24h, snow_48h, base_depth, temperature, wind_speed) ==
  LET s1 == IF Ge(snow_24h, Z(12)) THEN 40
            ELSE IF Ge(snow_24h, Z(6)) THEN 25
            ELSE IF Ge(snow_48h, Z(18)) THEN 30
            ELSE 0
      s2 == IF Lt(temperature, Z(32)) /\ Gt(temperature, Z(10)) THEN 20
            ELSE IF Lt(temperature, Z(10)) THEN 15
            ELSE 0
      s3 == IF Lt(wind_speed, Z(20)) THEN 20
            ELSE IF Lt(wind_speed, Z(30)) THEN 10
            ELSE 0
      s4 == IF Ge(base_depth, Z(60)) THEN 20
            ELSE IF Ge(base_depth, Z(40)) THEN 10
            ELSE 0
  IN GreatestLeast(s1 + s2 + s3 + s4)

----------------------------------------------------------------------------
(* server.js: the buoy feed and parseBuoyData *)

\* The model keeps the first two of the four buoys of BUOYS.
BUOYS ==
  [id \in {"46221", "46222"} |->
     IF id = "46221" THEN [name |-> "Santa Barbara", region |-> "Southern CA"]
     ELSE [name |-> "San Pedro", region |-> "Southern CA"]]

\* Object.keys(BUOYS): integer-like keys, in ascending order
BuoyOrder == <<"46221", "46222">>

Digits == <<"0", "1", "2", "3", "4", "5", "6", "7", "8", "9">>

IsDigit(c) == \E i \in 1..10 : Digits[i] = c

DigitVal(c) == (CHOOSE i \in 1..10 : Digits[i] = c) - 1

\* the length of the longest prefix of digits of tok starting at position p
RECURSIVE DigitRun(_, _)
DigitRun(tok, p) ==
  IF p <= Len(tok) /\ IsDigit(tok[p]) THEN 1 + DigitRun(tok, p + 1) ELSE 0

\* the value of the digits tok[p .. p+len-1]
RECURSIVE DigitsValue(_, _, _)
DigitsValue(tok, p, len) ==
  IF len = 0 THEN 0
  ELSE 10 * DigitsValue(tok, p, len - 1) + DigitVal(tok[p + len - 1])

RECURSIVE Pow10(_)
Pow10(k) == IF k = 0 THEN 1 ELSE 10 * Pow10(k - 1)

\* parseFloat of a token (a sequence of characters; <<>> stands for undefined):
\* optional sign, digits, optional fraction; anything after is ignored; NaN when
\* no digit is found.  (Exponents and "Infinity" do not occur in the feed.)
parseFloat(tok) ==
  LET signed == Len(tok) >= 1 /\ tok[1] \in {"-", "+"}
      sgn == IF signed /\ tok[1] = "-" THEN -1 ELSE 1
      p == IF signed THEN 2 ELSE 1
      ni == DigitRun(tok, p)
      dot == p + ni <= Len(tok) /\ tok[p + ni] = "."
      nf == IF dot THEN DigitRun(tok, p + ni + 1) ELSE 0
  IN IF ni = 0 /\ nf = 0 THEN NaN
     ELSE Num(sgn * (DigitsValue(tok, p, ni) * Pow10(nf)
                     + DigitsValue(tok, p + ni + 1, nf)), Pow10(nf))

\* data[header] after headers.forEach((header, i) => data[header] = latest[i]):
\* the token under the last column named header, <<>> (undefined) when there is none
Column(headers, latest, header) ==
  LET at == {i \in 1..Len(headers) : headers[i] = header}
  IN IF at = {} THEN <<>>
     ELSE LET i == CHOOSE j \in at : \A k \in at : k <= j
          IN IF i <= Len(latest) THEN latest[i] ELSE <<>>

\* parseFloat(data.X) || 0
Metric(headers, latest, header) == Or(parseFloat(Column(headers, latest, header)), Z(0))

NoReading == [buoyId |-> "null"]

\* text.split('\n').filter(l => l.trim()): a text is a sequence of lines, a line the
\* sequence of its whitespace-separated tokens, a blank line <<>>
NonBlank(text) == SelectSeq(text, LAMBDA l : l # <<>>)

\* the timestamp field (a Date built from the YY MM DD hh mm columns) is left out
parseBuoyData(text, buoyId) ==
  LET lines == NonBlank(text)
  IN IF Len(lines) < 3 THEN NoReading
     ELSE LET headers == lines[1]
              latest == lines[3]
          IN [buoyId |-> buoyId,
              waveHeight |-> Metric(headers, latest, <<"W", "V", "H", "T">>),
              dominantPeriod |-> Metric(headers, latest, <<"D", "P", "D">>),
              avgPeriod |-> Metric(headers, latest, <<"A", "P", "D">>),
              waveDirection |-> Metric(headers, latest, <<"M", "W", "D">>),
              windSpeed |-> Metric(headers, latest, <<"W", "S", "P", "D">>),
              windDirection |-> Metric(headers, latest, <<"W", "D", "I", "R">>),
              pressure |-> Metric(headers, latest, <<"P", "R", "E", "S">>),
              waterTemp |-> Metric(headers, latest, <<"W", "T", "M", "P">>)]

\* { ...BUOYS[buoyId], ...parsed, score: calculateSurfScore(parsed) }
CacheEntry(buoyId, parsed) ==
  [buoyId |-> parsed.buoyId,
   name |-> BUOYS[buoyId].name,
   region |-> BUOYS[buoyId].region,
   waveHeight |-> parsed.waveHeight,
   dominantPeriod |-> parsed.dominantPeriod,
   avgPeriod |-> parsed.avgPeriod,
   waveDirection |-> parsed.waveDirection,
   windSpeed |-> parsed.windSpeed,
   windDirection |-> parsed.windDirection,
   pressure |-> parsed.pressure,
   waterTemp |-> parsed.waterTemp,
   score |-> calculateSurfScore(parsed)]

\* ---- the feed bodies the model draws from ----
FeedHeader ==
  << <<"W", "D", "I", "R">>, <<"W", "S", "P", "D">>, <<"W", "V", "H", "T">>,
     <<"D", "P", "D">>, <<"A", "P", "D">>, <<"M", "W", "D">>,
     <<"P", "R", "E", "S">>, <<"W", "T", "M", "P">> >>

FeedUnits ==
  << <<"d", "e", "g", "T">>, <<"m", "/", "s">>, <<"m">>, <<"s", "e", "c">>,
     <<"s", "e", "c">>, <<"d", "e", "g", "T">>, <<"h", "P", "a">>, <<"d", "e", "g", "C">> >>

\* 2.0 m, 14 s, 10.0 s, 2.0 m/s
RowStrike ==
  << <<"2", "7", "0">>, <<"2", ".", "0">>, <<"2", ".", "0">>, <<"1", "4">>,
     <<"1", "0", ".", "0">>, <<"2", "8", "0">>, <<"1", "0", "1", "5", ".", "2">>,
     <<"1", "5", ".", "1">> >>

\* 0.5 m, 6 s, 5.5 s, 10.0 m/s
RowFlat ==
  << <<"9", "0">>, <<"1", "0", ".", "0">>, <<"0", ".", "5">>, <<"6">>,
     <<"5", ".", "5">>, <<"1", "8", "0">>, <<"1", "0", "0", "9", ".", "8">>,
     <<"1", "3", ".", "9">> >>

\* every field reported missing
RowMissing ==
  << <<"M", "M">>, <<"M", "M">>, <<"M", "M">>, <<"M", "M">>,
     <<"M", "M">>, <<"M", "M">>, <<"M", "M">>, <<"M", "M">> >>

TextStrike == <<FeedHeader, FeedUnits, <<>>, RowStrike, RowFlat>>

TextFlat == <<FeedHeader, FeedUnits, RowFlat, RowStrike>>

TextMissing == <<FeedHeader, FeedUnits, RowMissing>>

\* a truncated feed: header and units only
TextShort == <<FeedHeader, <<>>, FeedUnits>>

\* the body of an error page
TextErrorPage ==
  << << <<"<", "h", "1", ">">>, <<"4", "0", "4">> >>,
     << <<"N", "o", "t">>, <<"F", "o", "u", "n", "d">> >>,
     << <<"<", "/", "h", "1", ">">> >> >>

\* 1.0 m, 14 s, 10.0 s, 2.0 m/s
RowGood ==
  << <<"2", "7", "0">>, <<"2", ".", "0">>, <<"1", ".", "0">>, <<"1", "4">>,
     <<"1", "0", ".", "0">>, <<"2", "8", "0">>, <<"1", "0", "1", "5", ".", "2">>,
     <<"1", "5", ".", "1">> >>

TextGood == <<FeedHeader, FeedUnits, RowGood>>

FeedTexts == {TextStrike, TextGood, TextFlat, TextMissing, TextShort, TextErrorPage}

\* the bodies a response of the feed carries: the feed (whole, with every field
\* reported missing, or truncated) with a success status, an error page otherwise
Bodies(ok) == IF ok THEN {TextStrike, TextMissing, TextShort} ELSE {TextErrorPage}

MetricHeaders ==
  { <<"W", "V", "H", "T">>, <<"D", "P", "D">>, <<"A", "P", "D">>, <<"M", "W", "D">>,
    <<"W", "S", "P", "D">>, <<"W", "D", "I", "R">>, <<"P", "R", "E", "S">>,
    <<"W", "T", "M", "P">> }

\* the bodies that pass the line count and in whose data row no metric field is a number
Malformed ==
  {text \in FeedTexts :
     /\ Len(NonBlank(text)) >= 3
     /\ \A h \in MetricHeaders :
          ~IsNum(parseFloat(Column(NonBlank(text)[1], NonBlank(text)[3], h)))}

\* lines 96-103 for every body and buoy: the results entry, or NoReading
LoopBody ==
  [text \in FeedTexts |->
     [buoyId \in DOMAIN BUOYS |->
        LET parsed == parseBuoyData(text, buoyId)
        IN IF parsed.buoyId # "null" THEN CacheEntry(buoyId, parsed) ELSE NoReading]]

----------------------------------------------------------------------------
(* server.js: fetchAllBuoys, init, the 5-minute timer *)

NoDate == 0

NoResponse == [route |-> "none", id |-> "", status |-> 0, fetched |-> 0]

EmptyObject == <<>>

Keys(obj) == DOMAIN obj

\* obj with obj[key] = value
Put(obj, key, value) == [k \in DOMAIN obj \cup {key} |-> IF k = key THEN value ELSE obj[k]]

\* fetchAllBuoys() up to its first await: results = {}, the first buoy's request is out
NewCycle ==
  [pc |-> "fetch", i |-> 1, ok |-> FALSE, results |-> EmptyObject,
   attempted |-> {BuoyOrder[1]}, failed |-> {}, nonOk |-> {}, malformed |-> {}]

\* a finished invocation: its locals are gone
DoneCycle ==
  [pc |-> "done", i |-> 0, ok |-> FALSE, results |-> EmptyObject,
   attempted |-> {}, failed |-> {}, nonOk |-> {}, malformed |-> {}]

Running(cy) == cy.pc \in {"fetch", "text"}

\* the end of one loop iteration: the next buoy's request goes out, or the loop ends
NextBuoy(cy) ==
  IF cy.i < Len(BuoyOrder)
  THEN [cy EXCEPT !.pc = "fetch", !.i = cy.i + 1, !.ok = FALSE,
                  !.attempted = cy.attempted \cup {BuoyOrder[cy.i + 1]}]
  ELSE [cy EXCEPT !.pc = "commit"]

\* mutation: the error leaves the loop and fetchAllBuoys rejects
Catch_rethrow(cy) == [cy EXCEPT !.pc = "thrown", !.failed = cy.failed \cup {BuoyOrder[cy.i]}]

\* catch (err) { console.error(...) }: the iteration is over, the loop goes on
Catch(cy) == NextBuoy([cy EXCEPT !.failed = cy.failed \cup {BuoyOrder[cy.i]}])

\* lines 96-104: parse the body; a reading is scored and kept, null is skipped
Parsed(cy, text) ==
  LET buoyId == BuoyOrder[cy.i]
      entry == LoopBody[text][buoyId]
      seen == [cy EXCEPT !.nonOk = IF cy.ok THEN @ ELSE @ \cup {buoyId},
                         !.malformed = IF text \in Malformed THEN @ \cup {buoyId} ELSE @]
  IN IF entry.buoyId # "null"
     THEN NextBuoy([seen EXCEPT !.results = Put(cy.results, buoyId, entry)])
     ELSE NextBuoy([seen EXCEPT !.failed = cy.failed \cup {buoyId}])

\* mutation: the results are written into the cache entry by entry, the score of
\* an entry already there is kept
Commit_torn(results) ==
  /\ buoyCache' =
       [b \in Keys(results) \cup Keys(buoyCache) |->
          IF b \in Keys(results) /\ b \in Keys(buoyCache)
          THEN [results[b] EXCEPT !.score = buoyCache[b].score]
          ELSE IF b \in Keys(results) THEN results[b] ELSE buoyCache[b]]
  /\ now' = now + 1
  /\ lastUpdate' = now + 1

\* mutation: the cache is assigned, the date is left for a later step
Commit_dateLater(results) ==
  /\ buoyCache' = results
  /\ now' = now + 1
  /\ lastUpdate' = lastUpdate

\* buoyCache = results; lastUpdate = new Date()
Commit(results) ==
  /\ buoyCache' = results
  /\ now' = now + 1
  /\ lastUpdate' = now + 1

\* invocation c moves to cy; when its loop has ended it assigns the cache in the same step
Resume(c, cy) ==
  IF cy.pc = "commit"
  THEN /\ Commit(cy.results)
       /\ cycles' = [cycles EXCEPT ![c] = DoneCycle]
       /\ lastCycle' = [attempted |-> cy.attempted, failed |-> cy.failed,
                        nonOk |-> cy.nonOk, malformed |-> cy.malformed]
       /\ lastGood' = [b \in DOMAIN BUOYS |->
                         IF b \in Keys(cy.results) THEN cy.results[b] ELSE lastGood[b]]
  ELSE /\ cycles' = [cycles EXCEPT ![c] = cy]
       /\ UNCHANGED <<buoyCache, lastUpdate, now, lastCycle, lastGood>>

\* init(): calls fetchAllBuoys and awaits it
init ==
  /\ program = "server"
  /\ initPc = "start"
  /\ initPc' = "awaiting"
  /\ cycles' = <<NewCycle>>
  /\ response = NoResponse /\ UNCHANGED response
  /\ UNCHANGED <<program, call, buoyCache, lastUpdate, now, lastCycle, lastGood, skiVars, strikeVars>>

\* mutation: init() does not await the first cycle
initListen_noAwait ==
  /\ program = "server"
  /\ initPc = "awaiting"
  /\ initPc' = "listening"
  /\ response = NoResponse /\ UNCHANGED response
  /\ UNCHANGED <<program, call, buoyCache, lastUpdate, now, cycles, lastCycle, lastGood, skiVars, strikeVars>>

\* init() after the await: setInterval(fetchAllBuoys, 5 * 60 * 1000); app.listen(PORT)
initListen ==
  /\ program = "server"
  /\ initPc = "awaiting"
  /\ cycles[1].pc = "done"
  /\ initPc' = "listening"
  /\ response = NoResponse /\ UNCHANGED response
  /\ UNCHANGED <<program, call, buoyCache, lastUpdate, now, cycles, lastCycle, lastGood, skiVars, strikeVars>>

\* the interval timer fires: fetchAllBuoys is called, whatever the earlier calls are doing
timerFire ==
  /\ program = "server"
  /\ initPc = "listening"
  /\ Len(cycles) < MaxCycles
  /\ cycles' = Append(cycles, NewCycle)
  /\ response = NoResponse /\ UNCHANGED response
  /\ UNCHANGED <<program, call, buoyCache, lastUpdate, now, initPc, lastCycle, lastGood, skiVars, strikeVars>>

\* await fetch(url) settles: a response of any status, or a rejection
fetchSettles(c) ==
  /\ program = "server"
  /\ cycles[c].pc = "fetch"
  /\ \/ \E ok \in BOOLEAN :
          Resume(c, [cycles[c] EXCEPT !.pc = "text", !.ok = ok])
     \/ Resume(c, Catch(cycles[c]))
  /\ response = NoResponse /\ UNCHANGED response
  /\ UNCHANGED <<program, call, initPc, skiVars, strikeVars>>

\* await response.text() settles: the body, or a rejection
textSettles(c) ==
  /\ program = "server"
  /\ cycles[c].pc = "text"
  /\ \/ \E text \in Bodies(cycles[c].ok) : Resume(c, Parsed(cycles[c], text))
     \/ Resume(c, Catch(cycles[c]))
  /\ response = NoResponse /\ UNCHANGED response
  /\ UNCHANGED <<program, call, initPc, skiVars, strikeVars>>

----------------------------------------------------------------------------
(* The scoring functions applied to argument grids *)

\* wave heights in metres: below, on and above every band edge (2, 4, 10, 15 ft are
\* 50000/82021, 100000/82021, 250000/82021, 375000/82021 m), negative, huge
WaveHeights ==
  { Z(-1), Z(0), Num(1, 2), Num(50000, 82021), Z(1), Num(100000, 82021), Z(2),
    Num(250000, 82021), Num(305, 100), Z(4), Num(375000, 82021), Z(5), Z(1000) }

DominantPeriods == { Z(-3), Z(0), Z(6), Num(79, 10), Z(8), Z(10), Num(119, 10), Z(12), Z(14) }

\* wind speeds in m/s: 10 and 15 mph are 10000/2237 and 15000/2237 m/s
WindSpeeds ==
  { Z(-5), Z(0), Z(2), Num(10000, 2237), Z(5), Num(15000, 2237), Z(10), Z(1000) }

AvgPeriods == { Z(0), Num(79, 10), Z(8), Z(10) }

SurfArgs ==
  [waveHeight : WaveHeights, dominantPeriod : DominantPeriods,
   windSpeed : WindSpeeds, avgPeriod : AvgPeriods]
  \cup [waveHeight : {NaN, Z(2)}, dominantPeriod : {NaN, Z(14)},
        windSpeed : {NaN, Z(2)}, avgPeriod : {NaN, Z(10)}]

SqlSurfArgs ==
  [waveHeight : WaveHeights, dominantPeriod : DominantPeriods,
   windSpeed : WindSpeeds, avgPeriod : AvgPeriods]
  \cup [waveHeight : {Null, Z(2)}, dominantPeriod : {Null, Z(14)},
        windSpeed : {Null, Z(2)}, avgPeriod : {Null, Z(10)}]

\* ski-data-fetcher.js: inches, inches, degrees Celsius, m/s
SkiArgs ==
  [snow24h : {Z(-3), Z(0), Z(4), Z(6), Z(8), Z(12), Z(1000)},
   snow48h : {Z(-3), Z(0), Z(12), Z(18), Z(20), Z(1000)},
   temp : {Z(-40), Z(-10), Z(-5), Z(0), Z(1), Z(2), Z(30), NaN},
   windSpeed : {Z(-5), Z(0), Z(5), Z(8), Z(12), Z(20), Z(1000)}]

NoObject == [present |-> FALSE]

ServerSkiArgs ==
  [weatherData : {NoObject} \cup
       [present : {TRUE}, temp : {Z(-50), Z(10), Z(20), Z(32), Undefined},
        windSpeed : {Z(-5), Z(10), Z(20), Z(30), Undefined}],
   snowData : {NoObject} \cup
       [present : {TRUE}, freshSnow24h : {Z(-1), Z(6), Z(12), Z(1000), Undefined},
        baseDepth : {Z(0), Z(60), Undefined}]]

\* database_schema.sql: inches, inches, inches, degrees Fahrenheit, mph
SqlSkiArgs ==
  [snow_24h : {Null, Z(-1), Z(6), Z(12)},
   snow_48h : {Null, Z(0), Z(18), Z(1000)},
   base_depth : {Null, Z(0), Z(40), Z(60)},
   temperature : {Null, Z(-50), Z(10), Z(20), Z(32)},
   wind_speed : {Null, Z(-5), Z(20), Z(30)}]

NewCall(fn, args) == [fn |-> fn, args |-> args, done |-> FALSE, ret |-> 0]

Return(fn, ret) ==
  /\ program = "score"
  /\ call.fn = fn
  /\ ~call.done
  /\ call' = [call EXCEPT !.done = TRUE, !.ret = ret]
  /\ UNCHANGED <<program, serverVars, skiVars, strikeVars, response>>

applySurfScore == Return("calculateSurfScore", calculateSurfScore(call.args))

applySkiScore == Return("calculateSkiScore", calculateSkiScore(call.args))

applyServerSkiScore ==
  Return("server.calculateSkiScore",
         calculateSkiScore_server(call.args.weatherData, call.args.snowData))

applySqlSurfScore ==
  Return("calculate_surf_score",
         calculate_surf_score(call.args.waveHeight, call.args.dominantPeriod,
                              call.args.windSpeed, call.args.avgPeriod))

applySqlSkiScore ==
  Return("calculate_ski_score",
         calculate_ski_score(call.args.snow_24h, call.args.snow_48h, call.args.base_depth,
                             call.args.temperature, call.args.wind_speed))

----------------------------------------------------------------------------
(* ski-data-fetcher.js: the source adapters *)

\* The model keeps three of the nineteen resorts, in their order in SKI_RESORTS.
SKI_RESORTS ==
  << [id |-> "whistler", name |-> "Whistler Blackcomb", country |-> "CA"],
     [id |-> "baker", name |-> "Mt. Baker", country |-> "US"],
     [id |-> "stevens", name |-> "Stevens Pass", country |-> "US"] >>

\* obj.f, undefined when obj has no such property (also obj?.f on undefined)
Get(obj, f) == IF f \in DOMAIN obj THEN obj[f] ELSE Undefined

\* arr?.[0]
First(arr) == IF Len(arr) >= 1 THEN arr[1] ELSE Undefined

\* arr.slice(0, n)
Slice(arr, n) == SubSeq(arr, 1, Min(n, Len(arr)))

NullData == [source |-> "null"]

\* An upstream response: status "ok" (2xx), "bad" (any other status) or "reject"
\* (the request fails); json says whether the body parses; the body is an object.
Response(status, json, body) == [status |-> status, json |-> json, body |-> body]

Threw(res) == res.status = "reject" \/ ~res.json

Rejected == Response("reject", FALSE, [message |-> "ECONNRESET"])

fetchNOAAWeather(pointRes, forecastRes, gridRes) ==
  IF pointRes.status = "reject" THEN NullData
  ELSE IF pointRes.status # "ok" THEN NullData
  ELSE IF ~pointRes.json THEN NullData
  ELSE IF "properties" \notin DOMAIN pointRes.body THEN NullData
  \* fetch(undefined) rejects
  ELSE IF "forecast" \notin DOMAIN pointRes.body.properties THEN NullData
  ELSE IF Threw(forecastRes) THEN NullData
  ELSE IF "forecastGridData" \notin DOMAIN pointRes.body.properties THEN NullData
  ELSE IF Threw(gridRes) THEN NullData
  ELSE IF "properties" \notin DOMAIN forecastRes.body THEN NullData
  ELSE IF "periods" \notin DOMAIN forecastRes.body.properties THEN NullData
  ELSE IF "properties" \notin DOMAIN gridRes.body THEN NullData
  ELSE LET grid == gridRes.body.properties
           Values(f) == IF f \in DOMAIN grid /\ "values" \in DOMAIN grid[f]
                        THEN grid[f].values ELSE <<>>
       IN [forecast |-> Slice(forecastRes.body.properties.periods, 6),
           snowAmount |-> Values("snowfallAmount"),
           temperature |-> Values("temperature"),
           windSpeed |-> Values("windSpeed"),
           source |-> "noaa"]

MmPerInch == Num(254, 10)

\* mutation: each accumulation counts its own 24 hours only
RECURSIVE SnowUpTo_ownDay(_, _, _)
SnowUpTo_ownDay(list, nowSec, limit) ==
  IF list = <<>> THEN Z(0)
  ELSE LET item == Head(list)
           rest == SnowUpTo_ownDay(Tail(list), nowSec, limit)
           snow3h == Get(Get(item, "snow"), "3h")
           hours == Div(Add(item.dt, Z(-nowSec)), Z(3600))
       IN IF Truthy(snow3h) /\ Le(hours, Z(limit)) /\ Gt(hours, Z(limit - 24))
          THEN Add(snow3h, rest) ELSE rest

\* forecast.list.forEach: the snow of the items up to `limit` hours after now
RECURSIVE SnowUpTo(_, _, _)
SnowUpTo(list, nowSec, limit) ==
  IF list = <<>> THEN Z(0)
  ELSE LET item == Head(list)
           rest == SnowUpTo(Tail(list), nowSec, limit)
           snow3h == Get(Get(item, "snow"), "3h")
           hours == Div(Add(item.dt, Z(-nowSec)), Z(3600))
       IN IF Truthy(snow3h) /\ Le(hours, Z(limit)) THEN Add(snow3h, rest) ELSE rest

\* mutation: the key is not looked at
fetchOpenWeather_keyless(key, currentRes, forecastRes, nowSec) ==
  IF Threw(currentRes) \/ Threw(forecastRes) THEN NullData
  ELSE [current |-> [temp |-> Z(0), windSpeed |-> Z(0)], forecast |-> <<>>,
        snow24h |-> Z(0), snow48h |-> Z(0), source |-> "openweather"]

fetchOpenWeather(key, currentRes, forecastRes, nowSec) ==
  IF ~key THEN NullData
  ELSE IF Threw(currentRes) THEN NullData
  ELSE IF Threw(forecastRes) THEN NullData
  ELSE IF "list" \notin DOMAIN forecastRes.body THEN NullData
  ELSE IF "main" \notin DOMAIN currentRes.body THEN NullData
  ELSE IF "wind" \notin DOMAIN currentRes.body THEN NullData
  ELSE IF "weather" \notin DOMAIN currentRes.body THEN NullData
  ELSE IF currentRes.body.weather = <<>> THEN NullData
  ELSE LET current == currentRes.body
           list == forecastRes.body.list
       IN [current |-> [temp |-> Get(current.main, "temp"),
                        feelsLike |-> Get(current.main, "feels_like"),
                        humidity |-> Get(current.main, "humidity"),
                        windSpeed |-> Get(current.wind, "speed"),
                        windDirection |-> Get(current.wind, "deg")],
           forecast |-> Slice(list, 8),
           snow24h |-> Div(SnowUpTo(list, nowSec, 24), MmPerInch),
           snow48h |-> Div(SnowUpTo(list, nowSec, 48), MmPerInch),
           source |-> "openweather"]

\* ---- the upstream responses the model draws from ----
NowSec == 1000000

PointOk ==
  Response("ok", TRUE, [properties |-> [forecast |-> "url", forecastGridData |-> "url"]])

PointNotFound == Response("bad", TRUE, [status |-> 404])

Period(temperature) == [name |-> "Tonight", temperature |-> Z(temperature), windSpeed |-> "10 mph"]

ForecastOk == Response("ok", TRUE, [properties |-> [periods |-> <<Period(25), Period(31)>>]])

ForecastUnavailable == Response("bad", TRUE, [status |-> 503])

\* a forecast in another schema: its periods carry main and wind objects
ForecastForeign ==
  Response("ok", TRUE,
           [properties |-> [periods |-> << [name |-> "Tonight", main |-> [temp |-> Z(-12)],
                                            wind |-> [speed |-> Z(30)]] >>]])

GridOk ==
  Response("ok", TRUE,
           [properties |-> [snowfallAmount |-> [values |-> <<Z(50)>>],
                            temperature |-> [values |-> <<Z(-4)>>]]])

GridUnavailable == Response("bad", TRUE, [status |-> 503])

NOAAResponses ==
  {PointOk, PointNotFound, Rejected}
    \X {ForecastOk, ForecastForeign, ForecastUnavailable, Rejected}
    \X {GridOk, GridUnavailable}

Current(temp, speed) ==
  Response("ok", TRUE,
           [main |-> [temp |-> temp, feels_like |-> temp, humidity |-> Z(80)],
            wind |-> [speed |-> speed, deg |-> Z(270)],
            weather |-> <<[description |-> "snow"]>>])

Unauthorized == Response("bad", TRUE, [cod |-> 401])

Item(hours, temp, speed) ==
  [dt |-> Z(NowSec + hours * 3600), main |-> [temp |-> temp], wind |-> [speed |-> speed]]

SnowItem(hours, temp, speed, mm) ==
  [dt |-> Z(NowSec + hours * 3600), main |-> [temp |-> temp], wind |-> [speed |-> speed],
   snow |-> [3h |-> mm]]

\* 330 mm within 24 h, 560 mm within 48 h
ForecastStorm ==
  Response("ok", TRUE,
           [list |-> << SnowItem(3, Z(-9), Z(2), Z(160)), SnowItem(6, Z(-9), Z(2), Z(170)),
                        SnowItem(30, Z(-7), Z(3), Z(230)), SnowItem(54, Z(-5), Z(3), Z(40)) >>])

\* items out of order, on the 24 h and 48 h limits, in the past, without snow and
\* with snow 0: 300 mm within 24 h, 600 mm within 48 h
ForecastMixed ==
  Response("ok", TRUE,
           [list |-> << SnowItem(48, Z(-3), Z(4), Z(300)), SnowItem(24, Z(-3), Z(4), Z(200)),
                        Item(27, Z(-3), Z(4)), SnowItem(-3, Z(-2), Z(4), Z(100)),
                        SnowItem(49, Z(-3), Z(4), Z(700)), SnowItem(12, Z(-3), Z(4), Z(0)) >>])

\* a payload with a negative amount on the second day
ForecastNegative ==
  Response("ok", TRUE,
           [list |-> << SnowItem(3, Z(-3), Z(4), Z(50)), SnowItem(30, Z(-3), Z(4), Z(-20)) >>])

ForecastDry == Response("ok", TRUE, [list |-> << Item(3, Z(4), Z(12)), Item(6, Z(5), Z(12)) >>])

OpenWeatherResponses ==
  {Current(Z(-8), Z(2)), Current(Z(0), Z(12)), Unauthorized, Rejected}
    \X {ForecastStorm, ForecastMixed, ForecastNegative, ForecastDry, Unauthorized}

----------------------------------------------------------------------------
(* ski-data-fetcher.js: fetchAllSkiData *)

\* mutation: the fallback is skipped
AfterNOAA_noFallback(data) == "record"

\* mutation: the fallback is called whatever NOAA returned
AfterNOAA_always(data) == "fallback"

\* if (!data) data = await fetchOpenWeather(...)
AfterNOAA(data) == IF data.source = "null" THEN "fallback" ELSE "record"

\* mutation: the temperature is read from the NOAA period's own field
SkiScoreInput_periodTemp(data) ==
  [snow24h |-> Or(Get(data, "snow24h"), Z(0)),
   snow48h |-> Or(Get(data, "snow48h"), Z(0)),
   temp |-> Or(Get(Get(data, "current"), "temp"),
               Or(Get(First(data.forecast), "temperature"), Z(0))),
   windSpeed |-> Or(Get(Get(data, "current"), "windSpeed"), Z(0))]

\* calculateSkiScore({ snow24h: data.snow24h || 0, ... })
SkiScoreInput(data) ==
  [snow24h |-> Or(Get(data, "snow24h"), Z(0)),
   snow48h |-> Or(Get(data, "snow48h"), Z(0)),
   temp |-> Or(Get(Get(data, "current"), "temp"),
               Or(Get(Get(First(data.forecast), "main"), "temp"), Z(0))),
   windSpeed |-> Or(Get(Get(data, "current"), "windSpeed"),
                    Or(Get(Get(First(data.forecast), "wind"), "speed"), Z(0)))]

\* if (data) { results.push({ resort, weather: data, score, isStrike: score >= 70 }) }
Pushed(results, resort, data) ==
  IF data.source = "null" THEN results
  ELSE LET score == calculateSkiScore(SkiScoreInput(data))
       IN Append(results, [resort |-> resort.id, weather |-> data, score |-> score,
                           isStrike |-> score >= 70])

Logged(resort, source, requested, data) ==
  Append(skiLog, [resort |-> resort.id, source |-> source, requested |-> requested,
                  got |-> data.source # "null"])

\* fetchAllSkiData(): results = [], the loop reaches its first resort
skiStart ==
  /\ program = "ski"
  /\ skiPc = "idle"
  /\ skiPc' = "resort"
  /\ skiIdx' = 1
  /\ skiResults' = <<>>
  /\ UNCHANGED <<program, call, serverVars, OPENWEATHER_KEY, skiLog, strikeVars, response>>

\* a US resort: await fetchNOAAWeather(...), then the fallback or the result
skiNOAA ==
  /\ program = "ski"
  /\ skiPc = "resort"
  /\ SKI_RESORTS[skiIdx].country = "US"
  /\ \E r \in NOAAResponses :
       LET resort == SKI_RESORTS[skiIdx]
           data == fetchNOAAWeather(r[1], r[2], r[3])
       IN /\ skiLog' = Logged(resort, "noaa", TRUE, data)
          /\ IF AfterNOAA(data) = "fallback"
             THEN skiPc' = "fallback" /\ UNCHANGED skiResults
             ELSE skiPc' = "sleep" /\ skiResults' = Pushed(skiResults, resort, data)
  /\ UNCHANGED <<program, call, serverVars, OPENWEATHER_KEY, skiIdx, strikeVars, response>>

\* await fetchOpenWeather(...): for a resort outside the US, or as the fallback
skiOpenWeather ==
  /\ program = "ski"
  /\ \/ skiPc = "fallback"
     \/ skiPc = "resort" /\ SKI_RESORTS[skiIdx].country # "US"
  /\ \E r \in OpenWeatherResponses :
       LET resort == SKI_RESORTS[skiIdx]
           data == fetchOpenWeather(OPENWEATHER_KEY, r[1], r[2], NowSec)
       IN /\ skiLog' = Logged(resort, "openweather", OPENWEATHER_KEY, data)
          /\ skiResults' = Pushed(skiResults, resort, data)
  /\ skiPc' = "sleep"
  /\ UNCHANGED <<program, call, serverVars, OPENWEATHER_KEY, skiIdx, strikeVars, response>>

\* await new Promise(resolve => setTimeout(resolve, 1000)); next resort, or return results
skiRateLimit ==
  /\ program = "ski"
  /\ skiPc = "sleep"
  /\ IF skiIdx < Len(SKI_RESORTS)
     THEN skiIdx' = skiIdx + 1 /\ skiPc' = "resort"
     ELSE skiIdx' = skiIdx /\ skiPc' = "done"
  /\ UNCHANGED <<program, call, serverVars, OPENWEATHER_KEY, skiResults, skiLog, strikeVars, response>>

InitSki ==
  /\ skiPc = "idle"
  /\ skiIdx = 0
  /\ skiResults = <<>>
  /\ skiLog = <<>>

----------------------------------------------------------------------------
(* server.js: the query handlers; ski-data-fetcher.js: findStrikes and the CLI *)

\* server.js has its own, shorter resort list
SERVER_SKI_RESORTS ==
  << [id |-> "whistler", name |-> "Whistler Blackcomb", region |-> "BC"],
     [id |-> "jackson", name |-> "Jackson Hole", region |-> "WY"],
     [id |-> "alta", name |-> "Alta", region |-> "UT"] >>

\* the ids requests ask for: a buoy of BUOYS, an unknown id, a property every
\* object inherits from Object.prototype
BuoyIds == {"46221", "99999", "__proto__"}

ResortIds == {"jackson", "nowhere"}

\* buoyCache.__proto__: Object.prototype, which res.json serialises as {}
ObjectPrototype == [inherited |-> TRUE]

\* obj[key] on an object literal: an own property, else one inherited from
\* Object.prototype, else undefined
Lookup(obj, key) ==
  IF key \in Keys(obj) THEN obj[key]
  ELSE IF key = "__proto__" THEN ObjectPrototype
  ELSE Undefined

\* JSON.stringify: own enumerable properties only
ToJSON(value) == IF value = ObjectPrototype THEN EmptyObject ELSE value

\* Object.values(obj): integer-like keys in ascending order
Values(obj) ==
  LET keys == SelectSeq(BuoyOrder, LAMBDA k : k \in Keys(obj))
  IN [i \in 1..Len(keys) |-> obj[keys[i]]]

\* mutation: the array is returned in the order it was built
SortByScore_unsorted(arr) == arr

RECURSIVE InsertByScore(_, _)
InsertByScore(sorted, x) ==
  IF sorted = <<>> THEN <<x>>
  ELSE IF Head(sorted).score >= x.score THEN <<Head(sorted)>> \o InsertByScore(Tail(sorted), x)
  ELSE <<x>> \o sorted

\* arr.sort((a, b) => b.score - a.score): stable, by score descending
RECURSIVE SortByScore(_)
SortByScore(arr) ==
  IF arr = <<>> THEN <<>>
  ELSE InsertByScore(SortByScore(SubSeq(arr, 1, Len(arr) - 1)), arr[Len(arr)])

\* res.json(body) / res.status(404).json(body); fetched counts the upstream requests
\* the handler issued before answering
Json(route, status, body, fetched) ==
  [route |-> route, id |-> "", status |-> status, body |-> body, fetched |-> fetched]

\* a handler sends its response; nothing else changes
Send(res) ==
  /\ program = "server"
  /\ initPc = "listening"
  /\ response = NoResponse
  /\ response' = res
  /\ UNCHANGED <<program, call, serverVars, skiVars, strikeVars>>

\* the handler returns to the event loop: handlers run to completion, no other
\* callback of the process runs before that
handlerReturns ==
  /\ program = "server"
  /\ response # NoResponse
  /\ response' = NoResponse
  /\ UNCHANGED <<program, call, serverVars, skiVars, strikeVars>>

\* GET /api/health
getHealth ==
  Send(Json("/api/health", 200,
            [status |-> "healthy", lastUpdate |-> lastUpdate,
             buoysCount |-> Cardinality(Keys(buoyCache))], 0))

\* if (buoy.score >= 70)
IsStrikeBuoy(buoy) == buoy.score >= 70

\* the strikes array before the sort (location and timestamp are left out)
SurfStrikes(cache) ==
  LET hits == SelectSeq(Values(cache), IsStrikeBuoy)
  IN [i \in 1..Len(hits) |->
        [type |-> "surf", id |-> hits[i].buoyId, name |-> hits[i].name,
         score |-> hits[i].score,
         data |-> [waveHeight |-> hits[i].waveHeight, period |-> hits[i].dominantPeriod,
                   wind |-> hits[i].windSpeed]]]

\* GET /api/strikes
getStrikes ==
  Send(Json("/api/strikes", 200,
            [strikes |-> SortByScore(SurfStrikes(buoyCache)), updated |-> lastUpdate], 0))

\* GET /api/buoys
getBuoys ==
  Send(Json("/api/buoys", 200,
            [buoys |-> buoyCache, count |-> Cardinality(Keys(buoyCache)),
             updated |-> lastUpdate], 0))

\* if (!buoy) return res.status(404).json({ error: 'Buoy not found' }); res.json(buoy)
BuoyResponse(id, buoy) ==
  IF buoy = Undefined
  THEN Json("/api/buoys/:id", 404, [error |-> "Buoy not found"], 0)
  ELSE Json("/api/buoys/:id", 200, ToJSON(buoy), 0)

\* GET /api/buoys/:id (the response record keeps the id asked for)
getBuoyById ==
  \E id \in BuoyIds :
    Send([BuoyResponse(id, Lookup(buoyCache, id)) EXCEPT !.id = id])

\* GET /api/resorts
getResorts ==
  Send(Json("/api/resorts", 200,
            [resorts |-> SERVER_SKI_RESORTS, count |-> Len(SERVER_SKI_RESORTS)], 0))

\* fetchSkiWeather: the status of the responses is not looked at
fetchSkiWeather(pointRes, forecastRes) ==
  IF Threw(pointRes) THEN NullData
  ELSE IF "properties" \notin DOMAIN pointRes.body THEN NullData
  ELSE IF "forecast" \notin DOMAIN pointRes.body.properties THEN NullData
  ELSE IF Threw(forecastRes) THEN NullData
  ELSE IF "properties" \notin DOMAIN forecastRes.body THEN NullData
  ELSE IF "periods" \notin DOMAIN forecastRes.body.properties THEN NullData
  ELSE [forecast |-> Slice(forecastRes.body.properties.periods, 3), source |-> "noaa"]

\* the requests fetchSkiWeather issues: the point, then the forecast when it gets that far
SkiWeatherFetches(pointRes) ==
  IF Threw(pointRes) \/ "properties" \notin DOMAIN pointRes.body THEN 1 ELSE 2

SkiWeatherResponses == {PointOk, PointNotFound, Rejected} \X {ForecastOk, ForecastUnavailable}

\* GET /api/resorts/:id: the handler reads no shared state between its awaits, so it
\* is one step
getResortById ==
  \E id \in ResortIds :
    LET found == SelectSeq(SERVER_SKI_RESORTS, LAMBDA r : r.id = id)
    IN IF found = <<>>
       THEN Send([Json("/api/resorts/:id", 404, [error |-> "Resort not found"], 0)
                    EXCEPT !.id = id])
       ELSE \E r \in SkiWeatherResponses :
              Send([Json("/api/resorts/:id", 200,
                         [resort |-> found[1], weather |-> fetchSkiWeather(r[1], r[2])],
                         SkiWeatherFetches(r[1]))
                    EXCEPT !.id = id])

\* findStrikes(resortData): filter, sort, map (the formatted snow and temperature
\* strings are left out)
findStrikes(resortData) ==
  LET sorted == SortByScore(SelectSeq(resortData, LAMBDA r : r.isStrike))
  IN [i \in 1..Len(sorted) |-> [name |-> sorted[i].resort, score |-> sorted[i].score]]

\* the CLI: fetchAllSkiData().then(results => { const strikes = findStrikes(results) ... })
skiReport ==
  /\ program = "ski"
  /\ skiPc = "done"
  /\ response = NoResponse
  /\ response' = Json("findStrikes", 0, [strikes |-> findStrikes(skiResults)], 0)
  /\ UNCHANGED <<program, call, serverVars, skiVars, strikeVars>>

----------------------------------------------------------------------------
(* The strike detector.  The repository declares the strikes table            *)
(* (database_schema.sql: started_at, ended_at, peak_score, peak_time) and no   *)
(* code that writes it; the detector below is the transition function of the   *)
(* design document, section 4.6, run once per location per refresh cycle.      *)

StrikeThreshold == 70

\* the maximum silence, in cycles, after which an open event is force-closed
SilenceLimit == 2

NoTime == 0

NoScore == -1

\* what a cycle can deliver for a location
ScoreFeed(loc) == IF loc = BuoyOrder[1] THEN {50, 60, 80, 95} ELSE {60, 80}

OpenEvents(events, loc) ==
  {i \in 1..Len(events) : events[i].locationId = loc /\ events[i].endedAt = NoTime}

\* mutation: every cycle at or above the threshold opens a new event
StrikeTransition_newEachCycle(events, loc, score, t) ==
  IF score >= StrikeThreshold
  THEN Append(events, [locationId |-> loc, startedAt |-> t, endedAt |-> NoTime,
                       peakScore |-> score, peakAt |-> t])
  ELSE [i \in 1..Len(events) |->
          IF i \in OpenEvents(events, loc) THEN [events[i] EXCEPT !.endedAt = t] ELSE events[i]]

\* mutation: the peak of an open event is never raised
StrikeTransition_peakKept(events, loc, score, t) ==
  IF score >= StrikeThreshold
  THEN IF OpenEvents(events, loc) = {}
       THEN Append(events, [locationId |-> loc, startedAt |-> t, endedAt |-> NoTime,
                            peakScore |-> score, peakAt |-> t])
       ELSE events
  ELSE [i \in 1..Len(events) |->
          IF i \in OpenEvents(events, loc) THEN [events[i] EXCEPT !.endedAt = t] ELSE events[i]]

\* NoStrike --(score >= threshold)--> Active: a new event
\* Active --(score >= threshold, score > peakScore)--> Active: the peak is raised
\* Active --(score >= threshold, score <= peakScore)--> Active: no change
\* Active --(score < threshold)--> NoStrike: the event is closed
StrikeTransition(events, loc, score, t) ==
  LET open == OpenEvents(events, loc)
  IN IF score >= StrikeThreshold
     THEN IF open = {}
          THEN Append(events, [locationId |-> loc, startedAt |-> t, endedAt |-> NoTime,
                               peakScore |-> score, peakAt |-> t])
          ELSE [i \in 1..Len(events) |->
                  IF i \in open /\ score > events[i].peakScore
                  THEN [events[i] EXCEPT !.peakScore = score, !.peakAt = t]
                  ELSE events[i]]
     ELSE [i \in 1..Len(events) |->
             IF i \in open THEN [events[i] EXCEPT !.endedAt = t] ELSE events[i]]

\* no reading this cycle: the state is kept, until the silence limit force-closes
SilenceTransition(events, loc, silent, t) ==
  IF silent >= SilenceLimit
  THEN [i \in 1..Len(events) |->
          IF i \in OpenEvents(events, loc) THEN [events[i] EXCEPT !.endedAt = t] ELSE events[i]]
  ELSE events

\* the cycle moves to its next location, or ends
StrikeAdvance ==
  IF strikePos < Len(BuoyOrder)
  THEN strikePos' = strikePos + 1 /\ strikeClock' = strikeClock
  ELSE strikePos' = 1 /\ strikeClock' = strikeClock + 1

\* the cycle scored the location: the detector's transition check
detectScore ==
  /\ program = "strike"
  /\ strikeClock <= MaxStrikeCycles
  /\ LET loc == BuoyOrder[strikePos]
     IN \E score \in ScoreFeed(loc) :
          /\ strikeEvents' = StrikeTransition(strikeEvents, loc, score, strikeClock)
          /\ strikeSilent' = [strikeSilent EXCEPT ![loc] = 0]
          /\ scoreLog' = [scoreLog EXCEPT ![loc] = Append(@, score)]
  /\ StrikeAdvance
  /\ UNCHANGED <<program, call, serverVars, skiVars, response>>

\* the cycle got no reading for the location
detectSilence ==
  /\ program = "strike"
  /\ strikeClock <= MaxStrikeCycles
  /\ LET loc == BuoyOrder[strikePos]
     IN /\ strikeEvents' = SilenceTransition(strikeEvents, loc, strikeSilent[loc] + 1, strikeClock)
        /\ strikeSilent' = [strikeSilent EXCEPT ![loc] = @ + 1]
        /\ scoreLog' = [scoreLog EXCEPT ![loc] = Append(@, NoScore)]
  /\ StrikeAdvance
  /\ UNCHANGED <<program, call, serverVars, skiVars, response>>

InitStrike ==
  /\ strikeEvents = <<>>
  /\ strikeClock = 1
  /\ strikePos = 1
  /\ strikeSilent = [b \in DOMAIN BUOYS |-> 0]
  /\ scoreLog = [b \in DOMAIN BUOYS |-> <<>>]

----------------------------------------------------------------------------
(* The scoring paths of the two fetchers: payload to score *)

\* the feed bodies parseBuoyData makes a reading of
ReadableTexts == {text \in FeedTexts : Len(NonBlank(text)) >= 3}

\* the adapter results fetchAllSkiData scores
SkiReadings ==
  ({fetchNOAAWeather(r[1], r[2], r[3]) : r \in NOAAResponses}
     \cup {fetchOpenWeather(TRUE, r[1], r[2], NowSec) : r \in OpenWeatherResponses})
    \ {NullData}

\* fetchAllBuoys lines 96-102: score: calculateSurfScore(parsed)
applyFeedScore ==
  Return("fetchAllBuoys.score", LoopBody[call.args][BuoyOrder[1]].score)

\* fetchAllSkiData lines 178-183: const score = calculateSkiScore({...})
applySkiReadingScore ==
  Return("fetchAllSkiData.score", calculateSkiScore(SkiScoreInput(call.args)))

NoEntry == [buoyId |-> "none"]

InitServer ==
  /\ buoyCache = EmptyObject
  /\ lastUpdate = NoDate
  /\ now = 0
  /\ initPc = "start"
  /\ cycles = <<>>
  /\ lastCycle = [attempted |-> {}, failed |-> {}, nonOk |-> {}, malformed |-> {}]
  /\ lastGood = [b \in DOMAIN BUOYS |-> NoEntry]

InitCall == call = [fn |-> "none", done |-> TRUE, ret |-> 0]

\* node server.js, or node ski-data-fetcher.js with or without an API key
Init ==
  /\ program \in {"server", "ski"}
  /\ OPENWEATHER_KEY \in (IF program = "ski" THEN BOOLEAN ELSE {FALSE})
  /\ InitCall
  /\ InitServer
  /\ InitSki
  /\ InitStrike
  /\ response = NoResponse

Next ==
  \/ init
  \/ initListen
  \/ timerFire
  \/ \E c \in 1..MaxCycles : c <= Len(cycles) /\ fetchSettles(c)
  \/ \E c \in 1..MaxCycles : c <= Len(cycles) /\ textSettles(c)
  \/ skiStart
  \/ skiNOAA
  \/ skiOpenWeather
  \/ skiRateLimit
  \/ skiReport
  \/ getHealth
  \/ getStrikes
  \/ getBuoys
  \/ getBuoyById
  \/ getResorts
  \/ getResortById
  \/ handlerReturns

Spec == Init /\ [][Next]_vars

\* What the event loop guarantees: a callback that is ready runs (init and its
\* continuation, the interval timer, the end of a handler).  Nothing guarantees that
\* an upstream request settles: fetch is called without a timeout or an abort
\* signal, so fetchSettles and textSettles, and the adapters of the ski run, get no
\* fairness; nor do the requests of clients.
Fairness ==
  /\ WF_vars(init)
  /\ WF_vars(initListen)
  /\ WF_vars(timerFire)
  /\ WF_vars(handlerReturns)
  /\ WF_vars(skiStart)
  /\ WF_vars(skiReport)

SpecLive == Init /\ [][Next]_vars /\ Fairness

InitScore ==
  /\ program = "score"
  /\ InitServer
  /\ OPENWEATHER_KEY = FALSE
  /\ InitSki
  /\ InitStrike
  /\ response = NoResponse
  /\ \/ \E a \in SurfArgs : call = NewCall("calculateSurfScore", a)
     \/ \E a \in SkiArgs : call = NewCall("calculateSkiScore", a)
     \/ \E a \in ServerSkiArgs : call = NewCall("server.calculateSkiScore", a)
     \/ \E a \in SqlSurfArgs : call = NewCall("calculate_surf_score", a)
     \/ \E a \in SqlSkiArgs : call = NewCall("calculate_ski_score", a)
     \/ \E a \in ReadableTexts : call = NewCall("fetchAllBuoys.score", a)
     \/ \E a \in SkiReadings : call = NewCall("fetchAllSkiData.score", a)

NextScore ==
  \/ applySurfScore
  \/ applySkiScore
  \/ applyServerSkiScore
  \/ applySqlSurfScore
  \/ applySqlSkiScore
  \/ applyFeedScore
  \/ applySkiReadingScore

SpecScore == InitScore /\ [][NextScore]_vars

InitDetector ==
  /\ program = "strike"
  /\ InitCall
  /\ InitServer
  /\ OPENWEATHER_KEY = FALSE
  /\ InitSki
  /\ InitStrike
  /\ response = NoResponse

NextDetector ==
  \/ detectScore
  \/ detectSilence

SpecStrike == InitDetector /\ [][NextDetector]_vars

----------------------------------------------------------------------------
(* Properties of the refresh cycles and of the ski run (Spec) *)

\* C1: a buoy fetched successfully in an earlier completed cycle still has a cache
\* entry, equal to its most recent successful scored reading, whatever failed in
\* later cycles: a cycle in which the buoy fails leaves its entry untouched.
C1_StaleEntryRetained ==
  \A b \in DOMAIN BUOYS :
    lastGood[b].buoyId # "none" => (b \in Keys(buoyCache) /\ buoyCache[b] = lastGood[b])

RunningCycles == {c \in 1..Len(cycles) : Running(cycles[c])}

\* C2: refresh cycles never overlap: at most one invocation of fetchAllBuoys is in
\* progress at any moment.
C2_CyclesNeverOverlap == Cardinality(RunningCycles) <= 1

LoggedResorts == {skiLog[i].resort : i \in 1..Len(skiLog)}

ResortsWithData == {skiLog[i].resort : i \in {j \in 1..Len(skiLog) : skiLog[j].got}}

ResultResorts == {skiResults[i].resort : i \in 1..Len(skiResults)}

AllResorts == {SKI_RESORTS[i].id : i \in 1..Len(SKI_RESORTS)}

\* C3: a failure for one location does not abort the cycle.  No invocation of
\* fetchAllBuoys ends by throwing; a completed buoy cycle has attempted every buoy
\* and its result (the cache it assigned) holds exactly the buoys that did not fail
\* in it; a finished fetchAllSkiData has called an adapter for every resort and its
\* result holds, once each, exactly the resorts for which an adapter returned data.
C3_FailureDoesNotAbortCycle ==
  /\ \A c \in 1..Len(cycles) : cycles[c].pc # "thrown"
  /\ lastUpdate # NoDate =>
       /\ lastCycle.attempted = DOMAIN BUOYS
       /\ Keys(buoyCache) = DOMAIN BUOYS \ lastCycle.failed
  /\ skiPc = "done" =>
       /\ LoggedResorts = AllResorts
       /\ ResultResorts = ResortsWithData
       /\ Len(skiResults) = Cardinality(ResortsWithData)

\* a cycle has completed in which the first buoy failed and the second was cached
C3_Witness ==
  /\ lastUpdate # NoDate
  /\ lastCycle.failed = {"46221"}
  /\ Keys(buoyCache) = {"46222"}

IsUS(id) == \E i \in 1..Len(SKI_RESORTS) : SKI_RESORTS[i].id = id /\ SKI_RESORTS[i].country = "US"

\* C6: for a US resort, when NOAA fails the OpenWeather adapter is called next for
\* the same resort, and when that call returns a reading the resort's result is
\* recorded, once, with the OpenWeather reading: the NOAA failure neither ends the
\* run nor drops the resort.
C6_FallbackToOpenWeather ==
  \A i \in 1..Len(skiLog) :
    (skiLog[i].source = "noaa" /\ ~skiLog[i].got) =>
      IF i = Len(skiLog) THEN skiPc = "fallback"
      ELSE /\ skiLog[i + 1].resort = skiLog[i].resort
           /\ skiLog[i + 1].source = "openweather"
           /\ skiLog[i + 1].got =>
                /\ \E k \in 1..Len(skiResults) :
                     /\ skiResults[k].resort = skiLog[i].resort
                     /\ skiResults[k].weather.source = "openweather"
                /\ Cardinality({k \in 1..Len(skiResults) :
                                  skiResults[k].resort = skiLog[i].resort}) = 1

\* the run has finished with NOAA failed and OpenWeather recorded for Mt. Baker
C6_Witness ==
  /\ skiPc = "done"
  /\ \E i \in 1..Len(skiLog) :
       /\ skiLog[i].resort = "baker" /\ skiLog[i].source = "noaa" /\ ~skiLog[i].got
       /\ skiLog[i + 1].source = "openweather" /\ skiLog[i + 1].got
  /\ \E k \in 1..Len(skiResults) :
       skiResults[k].resort = "baker" /\ skiResults[k].weather.source = "openweather"

\* the resorts the loop has finished with
FinishedResorts ==
  {SKI_RESORTS[i].id : i \in {j \in 1..Len(SKI_RESORTS) :
                                \/ skiPc = "done"
                                \/ skiPc # "idle" /\ j < skiIdx
                                \/ skiPc = "sleep" /\ j = skiIdx}}

\* C7: the sources of a chain are tried strictly in preference order and the first
\* reading wins.  For a US resort OpenWeather is called only directly after NOAA
\* returned no reading for that resort, and never when NOAA returned one; a result
\* carries the reading of the first source that returned one; a resort ends the
\* run without a result only if every source of its chain returned none.
C7_StrictPreferenceOrder ==
  /\ \A i \in 1..Len(skiLog) :
       (skiLog[i].source = "openweather" /\ IsUS(skiLog[i].resort)) =>
         /\ i > 1
         /\ skiLog[i - 1].resort = skiLog[i].resort
         /\ skiLog[i - 1].source = "noaa"
         /\ ~skiLog[i - 1].got
  /\ \A i, j \in 1..Len(skiLog) :
       (skiLog[i].source = "noaa" /\ skiLog[i].got /\ skiLog[j].resort = skiLog[i].resort)
         => skiLog[j].source = "noaa"
  /\ \A k \in 1..Len(skiResults) :
       \E i \in 1..Len(skiLog) :
         /\ skiLog[i].resort = skiResults[k].resort
         /\ skiLog[i].got
         /\ skiLog[i].source = skiResults[k].weather.source
         /\ \A j \in 1..Len(skiLog) :
              (skiLog[j].resort = skiLog[i].resort /\ skiLog[j].got) => j = i
  /\ \A r \in FinishedResorts \ ResultResorts :
       /\ \A i \in 1..Len(skiLog) : skiLog[i].resort = r => ~skiLog[i].got
       /\ \E i \in 1..Len(skiLog) : skiLog[i].resort = r /\ skiLog[i].source = "openweather"
       /\ IsUS(r) => \E i \in 1..Len(skiLog) : skiLog[i].resort = r /\ skiLog[i].source = "noaa"

\* the run has finished: NOAA won for one US resort, the fallback was needed for the
\* other, and both sources failed for none
C7_Witness ==
  /\ skiPc = "done"
  /\ \E k \in 1..Len(skiResults) :
       skiResults[k].resort = "baker" /\ skiResults[k].weather.source = "noaa"
  /\ \E i \in 1..Len(skiLog) :
       /\ skiLog[i].resort = "stevens" /\ skiLog[i].source = "noaa" /\ ~skiLog[i].got
       /\ skiLog[i + 1].source = "openweather" /\ skiLog[i + 1].got

----------------------------------------------------------------------------
(* Properties of the scoring functions (SpecScore) *)

\* C8: every score a scoring function returns is an integer in [0,100], whatever
\* the reading: calculateSurfScore, both calculateSkiScore functions and the SQL
\* calculate_surf_score and calculate_ski_score, on negative, huge and
\* not-a-number metrics alike.
C8_ScoreInRange == call.done => call.ret \in 0..100

\* a reading whose band points add up to -10 (no height, no period, strong wind)
\* has been scored by calculateSurfScore
C8_Witness ==
  /\ call.done
  /\ call.fn = "calculateSurfScore"
  /\ call.args.waveHeight = Z(-1)
  /\ call.args.dominantPeriod = Z(0)
  /\ call.args.windSpeed = Z(1000)
  /\ call.args.avgPeriod = Z(0)

\* The band table of the scoring section, as data: a band is an interval with
\* optional, open or closed ends, and its points.
Band(hasLo, lo, loIn, hasHi, hi, hiIn, pts) ==
  [hasLo |-> hasLo, lo |-> lo, loIn |-> loIn, hasHi |-> hasHi, hi |-> hi, hiIn |-> hiIn,
   pts |-> pts]

InBand(v, b) ==
  /\ IsNum(v)
  /\ b.hasLo => IF b.loIn THEN v.n >= b.lo * v.d ELSE v.n > b.lo * v.d
  /\ b.hasHi => IF b.hiIn THEN v.n <= b.hi * v.d ELSE v.n < b.hi * v.d

HeightTable ==
  << Band(TRUE, 4, TRUE, TRUE, 10, TRUE, 40),
     Band(TRUE, 2, TRUE, TRUE, 4, FALSE, 25),
     Band(TRUE, 10, FALSE, TRUE, 15, TRUE, 30) >>

PeriodTable ==
  << Band(TRUE, 12, TRUE, FALSE, 0, FALSE, 30),
     Band(TRUE, 10, TRUE, TRUE, 12, FALSE, 20),
     Band(TRUE, 8, TRUE, TRUE, 10, FALSE, 10) >>

WindTable ==
  << Band(FALSE, 0, FALSE, TRUE, 10, FALSE, 20),
     Band(TRUE, 10, TRUE, TRUE, 15, FALSE, 10),
     Band(TRUE, 15, TRUE, FALSE, 0, FALSE, -10) >>

AvgPeriodTable == << Band(TRUE, 8, TRUE, FALSE, 0, FALSE, 10) >>

\* the points of the first band of the table that holds v, 0 when none does
RECURSIVE TablePoints(_, _)
TablePoints(v, table) ==
  IF table = <<>> THEN 0
  ELSE IF InBand(v, Head(table)) THEN Head(table).pts
  ELSE TablePoints(v, Tail(table))

\* metres x 3.28084 and m/s x 2.237
Feet(m) == Mul(m, Num(328084, 100000))

Mph(v) == Mul(v, Num(2237, 1000))

AllNumbers(a) ==
  IsNum(a.waveHeight) /\ IsNum(a.dominantPeriod) /\ IsNum(a.windSpeed) /\ IsNum(a.avgPeriod)

TableScore(a) ==
  LET sum == TablePoints(Feet(a.waveHeight), HeightTable)
             + TablePoints(a.dominantPeriod, PeriodTable)
             + TablePoints(Mph(a.windSpeed), WindTable)
             + TablePoints(a.avgPeriod, AvgPeriodTable)
  IN IF sum < 0 THEN 0 ELSE IF sum > 100 THEN 100 ELSE sum

MatchingHeightBands ==
  LET b == heightBands(Mul(call.args.waveHeight, FeetPerMetre))
  IN {i \in 1..3 : b[i]}

IsSurfCall == call.fn \in {"calculateSurfScore"}

\* C10 as stated: for every wave height, exactly one height band contributes.
C10_ExactlyOneHeightBand ==
  (IsSurfCall /\ Ge(call.args.waveHeight, Z(0)))
    => Cardinality(MatchingHeightBands) = 1

\* C10 amended: for every wave height at most one height band contributes, never
\* two: exactly one from 2 ft up to and including 15 ft, none below 2 ft or above
\* 15 ft; the height points of the score are those of the matching band, 0 when
\* there is none.
C10_AtMostOneHeightBand ==
  IsSurfCall =>
    LET hf == Mul(call.args.waveHeight, FeetPerMetre)
        m == MatchingHeightBands
    IN /\ Cardinality(m) <= 1
       /\ Cardinality(m) = 1 <=> (Ge(hf, Z(2)) /\ Le(hf, Z(15)))
       /\ \A i \in m : heightPoints(hf) = heightBandPoints[i]
       /\ m = {} => heightPoints(hf) = 0

\* a wave of exactly 4 ft, the edge two bands share, has been scored
C10_Witness ==
  /\ call.done
  /\ IsSurfCall
  /\ Mul(call.args.waveHeight, FeetPerMetre) = Z(4)
  /\ MatchingHeightBands = {1}

----------------------------------------------------------------------------
(* Properties of the strike detector (SpecStrike) *)

EventsOf(loc) == SelectSeq(strikeEvents, LAMBDA e : e.locationId = loc)

\* C4: at every moment each location has at most one open strike event (endedAt
\* null): a location that stays at or above 70 over consecutive cycles keeps one
\* ongoing event, it does not get a new event per cycle.
C4_AtMostOneOpenEvent ==
  \A loc \in DOMAIN BUOYS : Cardinality(OpenEvents(strikeEvents, loc)) <= 1

\* a location has scored at or above 70 in three consecutive cycles and has one
\* event, which is open
C4_Witness ==
  \E loc \in DOMAIN BUOYS :
    /\ Len(scoreLog[loc]) = 3
    /\ \A i \in 1..3 : scoreLog[loc][i] >= StrikeThreshold
    /\ Len(EventsOf(loc)) = 1
    /\ Cardinality(OpenEvents(strikeEvents, loc)) = 1

Event(loc, startedAt, endedAt, peakScore, peakAt) ==
  [locationId |-> loc, startedAt |-> startedAt, endedAt |-> endedAt,
   peakScore |-> peakScore, peakAt |-> peakAt]

\* C5: for one location the scores 50, 80, 95, 60 of four successive successful
\* cycles yield exactly one strike event: none before the 80; started at the cycle
\* of the 80; peak 95 recorded at the cycle of the 95; ended at the cycle of the 60,
\* after which none is open.
C5_StrikeLifecycle ==
  \A loc \in DOMAIN BUOYS :
    /\ scoreLog[loc] = <<50>> => EventsOf(loc) = <<>>
    /\ scoreLog[loc] = <<50, 80>> => EventsOf(loc) = <<Event(loc, 2, NoTime, 80, 2)>>
    /\ scoreLog[loc] = <<50, 80, 95>> => EventsOf(loc) = <<Event(loc, 2, NoTime, 95, 3)>>
    /\ scoreLog[loc] = <<50, 80, 95, 60>> =>
         /\ EventsOf(loc) = <<Event(loc, 2, 4, 95, 3)>>
         /\ OpenEvents(strikeEvents, loc) = {}

\* the four cycles have run for the first buoy
C5_Witness == scoreLog[BuoyOrder[1]] = <<50, 80, 95, 60>>

----------------------------------------------------------------------------
(* Properties of the scoring paths (SpecScore) *)

\* the field of the data row of a feed body under a header, as parseFloat reads it
RawMetric(text, header) ==
  parseFloat(Column(NonBlank(text)[1], NonBlank(text)[3], header))

\* the points of a metric that was read, 0 for one that was not
PointsIfRead(raw, points) == IF IsNum(raw) THEN points ELSE 0

\* the temperature and the wind of a ski reading, where fetchAllSkiData looks for them
SkiTemp(data) ==
  Or(Get(Get(data, "current"), "temp"), Get(Get(First(data.forecast), "main"), "temp"))

SkiWind(data) ==
  Or(Get(Get(data, "current"), "windSpeed"), Get(Get(First(data.forecast), "wind"), "speed"))

\* C11: a metric that is missing, or that the parser replaced by its neutral default
\* because the field did not parse, contributes 0 points.  A buoy reading gets, per
\* metric, the band points of the field when it was read and 0 when it was not (no
\* +20/+10 and no -10 for an unparseable wind speed); a ski reading with neither a
\* temperature nor a wind value scores as the same reading with a temperature and a
\* wind outside every band (10 C, 15 m/s).
C11_NeutralDefaultContributesZero ==
  /\ (call.done /\ call.fn = "fetchAllBuoys.score") =>
       LET parsed == parseBuoyData(call.args, BuoyOrder[1])
       IN call.ret =
            Clamp(PointsIfRead(RawMetric(call.args, <<"W", "V", "H", "T">>),
                               heightPoints(Mul(parsed.waveHeight, FeetPerMetre)))
                  + PointsIfRead(RawMetric(call.args, <<"D", "P", "D">>),
                                 periodPoints(parsed.dominantPeriod))
                  + PointsIfRead(RawMetric(call.args, <<"W", "S", "P", "D">>),
                                 windPoints(Mul(parsed.windSpeed, MphPerMps)))
                  + PointsIfRead(RawMetric(call.args, <<"A", "P", "D">>),
                                 avgPeriodPoints(parsed.avgPeriod)))
  /\ (call.done /\ call.fn = "fetchAllSkiData.score"
        /\ ~IsNum(SkiTemp(call.args)) /\ ~IsNum(SkiWind(call.args))) =>
       call.ret = calculateSkiScore([snow24h |-> Or(Get(call.args, "snow24h"), Z(0)),
                                     snow48h |-> Or(Get(call.args, "snow48h"), Z(0)),
                                     temp |-> Z(10), windSpeed |-> Z(15)])

----------------------------------------------------------------------------
(* Properties of the refresh cycle's error handling (Spec) *)

\* C12: a reading with no parseable metrics is never cached: a buoy whose payload
\* had at least three non-blank lines and no metric field that parses as a number
\* has no cache entry from that cycle.
C12_NoMetricsNotCached ==
  lastUpdate # NoDate => lastCycle.malformed \cap Keys(buoyCache) = {}

NonSuccess(res) == res.status # "ok"

\* C18: an upstream response with a non-success status never yields a reading:
\* fetchNOAAWeather returns no data when its point, forecast or grid response is
\* non-success, fetchOpenWeather returns no data when either of its responses is
\* non-success, and a buoy whose feed response had a non-success status has no
\* cache entry from that cycle, whatever the body.
C18_NonSuccessYieldsNoReading ==
  /\ \A r \in NOAAResponses :
       (NonSuccess(r[1]) \/ NonSuccess(r[2]) \/ NonSuccess(r[3]))
         => fetchNOAAWeather(r[1], r[2], r[3]) = NullData
  /\ \A r \in OpenWeatherResponses :
       (NonSuccess(r[1]) \/ NonSuccess(r[2]))
         => fetchOpenWeather(TRUE, r[1], r[2], NowSec) = NullData
  /\ lastUpdate # NoDate => lastCycle.nonOk \cap Keys(buoyCache) = {}

----------------------------------------------------------------------------
(* Properties of the query handlers (Spec) *)

\* the entries a cycle can produce for buoy b: parsed, merged with BUOYS[b], scored
CompleteEntries(b) ==
  {LoopBody[text][b] : text \in FeedTexts} \ {NoReading}

\* C13: cache atomicity.  Whatever the refresh cycles are doing, a query observes
\* the cache as the last completed cycle assigned it: every entry returned by
\* GET /api/buoys and GET /api/buoys/:id is one complete entry as a cycle builds it
\* (never fields of two readings, never a score that is not the score of its own
\* fields), and GET /api/buoys returns exactly the buoys the last completed cycle
\* kept, never the partly built result of a running cycle.
C13_CacheAtomicity ==
  /\ response.route = "/api/buoys" =>
       /\ \A b \in Keys(response.body.buoys) :
            /\ response.body.buoys[b] \in CompleteEntries(b)
            /\ response.body.buoys[b].score = calculateSurfScore(response.body.buoys[b])
       /\ Keys(response.body.buoys) = DOMAIN BUOYS \ lastCycle.failed
       /\ response.body.count = Cardinality(Keys(response.body.buoys))
       /\ response.body.updated = lastUpdate
  /\ (response.route = "/api/buoys/:id" /\ response.id \in DOMAIN BUOYS
        /\ response.status = 200) =>
       /\ response.body \in CompleteEntries(response.id)
       /\ response.body.score = calculateSurfScore(response.body)

\* GET /api/buoys has answered while two cycles were in progress, one of them with
\* a partly built result that differs from the cache
C13_Witness ==
  /\ response.route = "/api/buoys"
  /\ Cardinality(RunningCycles) = 2
  /\ \E c \in RunningCycles :
       /\ cycles[c].results # EmptyObject
       /\ Keys(cycles[c].results) # Keys(buoyCache)
  /\ Keys(buoyCache) = DOMAIN BUOYS

\* C14: read queries never trigger a fetch: no handler issues an upstream request.
C14_QueriesNeverFetch == response.fetched = 0

\* C15: a query for one buoy answers "not found" exactly when the cache holds no
\* entry for the id asked for, and answers with the cached entry otherwise.
C15_NotFoundIffNoEntry ==
  response.route = "/api/buoys/:id" =>
    IF response.id \in Keys(buoyCache)
    THEN response.status = 200 /\ response.body = buoyCache[response.id]
    ELSE response.status = 404

\* the scores of an array are non-increasing
NonIncreasing(arr) == \A i, j \in 1..Len(arr) : i < j => arr[i].score >= arr[j].score

PerfectConditions(entry) ==
  /\ entry.waveHeight = Z(2)
  /\ entry.dominantPeriod = Z(14)
  /\ entry.avgPeriod = Z(10)
  /\ entry.windSpeed = Z(2)

\* C20: perfect surf conditions score high: wave height 2.0 m, dominant period
\* 14 s, average period 10 s and wind 2 m/s get 40 + 30 + 20 + 10 = 100, the
\* cached entry carries that score, and GET /api/strikes reports the buoy.
C20_PerfectConditionsStrike ==
  /\ heightPoints(Mul(Z(2), FeetPerMetre)) = 40
  /\ periodPoints(Z(14)) = 30
  /\ windPoints(Mul(Z(2), MphPerMps)) = 20
  /\ avgPeriodPoints(Z(10)) = 10
  /\ \A b \in Keys(buoyCache) :
       PerfectConditions(buoyCache[b]) =>
         /\ buoyCache[b].score = 100
         /\ response.route = "/api/strikes" =>
              \E i \in 1..Len(response.body.strikes) :
                /\ response.body.strikes[i].id = b
                /\ response.body.strikes[i].score = 100

\* GET /api/strikes has answered with a buoy in perfect conditions in the cache
C20_Witness ==
  /\ response.route = "/api/strikes"
  /\ \E b \in Keys(buoyCache) : PerfectConditions(buoyCache[b])
  /\ Len(response.body.strikes) >= 1

----------------------------------------------------------------------------
(* Properties of the ski run without an API key (Spec) *)

NOAAResorts == {skiLog[i].resort : i \in {j \in 1..Len(skiLog) :
                                             skiLog[j].source = "noaa" /\ skiLog[j].got}}

\* C19: without an OpenWeather API key the OpenWeather adapter is disabled and
\* nothing crashes: fetchOpenWeather issues no request and returns no data, every
\* result comes from NOAA, and a finished fetchAllSkiData has visited every resort
\* and returned exactly the US resorts for which NOAA succeeded; a resort outside
\* the US is absent.
C19_NoApiKey ==
  (program = "ski" /\ ~OPENWEATHER_KEY) =>
    /\ \A i \in 1..Len(skiLog) :
         skiLog[i].source = "openweather" => (~skiLog[i].requested /\ ~skiLog[i].got)
    /\ \A k \in 1..Len(skiResults) : skiResults[k].weather.source = "noaa"
    /\ skiPc = "done" =>
         /\ LoggedResorts = AllResorts
         /\ ResultResorts = NOAAResorts
         /\ \A r \in ResultResorts : IsUS(r)

\* without a key the run has finished: Mt. Baker has its NOAA result, Stevens Pass
\* (NOAA failed, fallback disabled) and Whistler (outside the US) have none
C19_Witness ==
  /\ program = "ski"
  /\ ~OPENWEATHER_KEY
  /\ skiPc = "done"
  /\ ResultResorts = {"baker"}
  /\ \E i \in 1..Len(skiLog) :
       skiLog[i].resort = "stevens" /\ skiLog[i].source = "openweather" /\ ~skiLog[i].requested

----------------------------------------------------------------------------
(* Termination of the refresh cycle (SpecLive) *)

\* C17: every refresh cycle that starts eventually completes, even when an
\* upstream request never returns.
C17_EveryCycleCompletes ==
  \A c \in 1..MaxCycles :
    [](c <= Len(cycles) => <>(c <= Len(cycles) /\ cycles[c].pc = "done"))

----------------------------------------------------------------------------
(* C21 *)

\* the periods of a NOAA reading carry neither a main nor a wind object
PlainPeriods(data) ==
  \A k \in 1..Len(data.forecast) :
    "main" \notin DOMAIN data.forecast[k] /\ "wind" \notin DOMAIN data.forecast[k]

ZeroInput == [snow24h |-> Z(0), snow48h |-> Z(0), temp |-> Z(0), windSpeed |-> Z(0)]

\* C21: a reading from NOAA has no snow24h, snow48h or current field; when its
\* forecast periods carry no main or wind object, fetchAllSkiData scores it from
\* snow24h = 0, snow48h = 0, temp = 0, windSpeed = 0, which is 30 whatever the
\* payload; every result with isStrike = true has source 'openweather', so a US
\* resort whose reading came from NOAA is never among findStrikes' results.
C21_NOAAScoreIsThirty ==
  /\ calculateSkiScore(ZeroInput) = 30
  /\ \A k \in 1..Len(skiResults) :
       LET r == skiResults[k]
       IN /\ r.weather.source = "noaa" =>
               /\ DOMAIN r.weather \cap {"snow24h", "snow48h", "current"} = {}
               /\ PlainPeriods(r.weather) =>
                    SkiScoreInput(r.weather) = ZeroInput /\ r.score = 30
               /\ ~r.isStrike
          /\ r.isStrike => r.weather.source = "openweather"
  /\ response.route = "findStrikes" =>
       \A k \in 1..Len(response.body.strikes) :
         \A j \in 1..Len(skiResults) :
           skiResults[j].resort = response.body.strikes[k].name =>
             skiResults[j].weather.source = "openweather"

\* a finished run with a NOAA reading scored 30 next to an OpenWeather strike
C21_Witness ==
  /\ response.route = "findStrikes"
  /\ \E k \in 1..Len(skiResults) :
       /\ skiResults[k].weather.source = "noaa"
       /\ skiResults[k].weather.forecast # <<>>
       /\ PlainPeriods(skiResults[k].weather)
       /\ skiResults[k].score = 30
  /\ \E k \in 1..Len(skiResults) : skiResults[k].isStrike

----------------------------------------------------------------------------
(* C22 *)

\* the invocations of fetchAllBuoys that reach their last two statements in this step
Completing == {c \in 1..Len(cycles) : Running(cycles[c]) /\ cycles'[c].pc = "done"}

\* what a query handler can observe between two steps
CacheObserved ==
  /\ lastUpdate = now
  /\ lastUpdate = NoDate => buoyCache = EmptyObject
  /\ lastUpdate # NoDate =>
       /\ Keys(buoyCache) = lastCycle.attempted \ lastCycle.failed
       /\ \A b \in Keys(buoyCache) : buoyCache[b] = lastGood[b]
  /\ \A b \in Keys(buoyCache) : buoyCache[b].score = calculateSurfScore(buoyCache[b])
  /\ response.route = "/api/health" =>
       /\ response.body.lastUpdate = lastUpdate
       /\ response.body.buoysCount = Cardinality(Keys(buoyCache))
  /\ response.route = "/api/strikes" => response.body.updated = lastUpdate
  /\ response.route = "/api/buoys" =>
       response.body.buoys = buoyCache /\ response.body.updated = lastUpdate

\* one step of the program: the cache and the date change in a step that ends an
\* invocation, both of them, and in no other step
ReplacedTogether ==
  IF Completing = {}
  THEN UNCHANGED <<buoyCache, lastUpdate>>
  ELSE /\ Cardinality(Completing) = 1
       /\ lastUpdate' = now' /\ now' = now + 1
       /\ Keys(buoyCache') = lastCycle'.attempted \ lastCycle'.failed
       /\ \A b \in Keys(buoyCache') : buoyCache'[b] = lastGood'[b]

\* C22: buoyCache and lastUpdate are replaced together, in one step, with no
\* suspension point between the two assignments.  In every state a query handler
\* can observe, whatever the interleaving of cycles and queries (overlapping cycles
\* included), lastUpdate is the completion time of the cycle that produced the
\* current buoyCache, and the score of every cached entry is calculateSurfScore of
\* that entry's own stored metrics.
C22_ReplacedTogether == []CacheObserved /\ [][ReplacedTogether]_vars

\* GET /api/health answers after the third invocation has replaced the cache
\* while the second, started before it, is still running
C22_Witness ==
  /\ response.route = "/api/health"
  /\ Len(cycles) = 3
  /\ cycles[3].pc = "done"
  /\ Running(cycles[2])
  /\ cycles[2].results # EmptyObject
  /\ lastUpdate >= 2

----------------------------------------------------------------------------
(* C23 *)

\* the first call of fetchAllBuoys, the one init awaits, has assigned the cache
FirstCycleDone == Len(cycles) >= 1 /\ cycles[1].pc = "done" /\ lastUpdate # NoDate

\* C23: the server accepts queries only after the first refresh cycle has
\* completed.  init awaits fetchAllBuoys before it arms the timer and before it
\* listens: the server listens only when the first cycle is done, every response
\* served is served with lastUpdate set (and shows it where the body carries it),
\* and no invocation of fetchAllBuoys is started by the timer before the first one
\* has finished.
C23_ListensAfterFirstCycle ==
  /\ initPc = "listening" => FirstCycleDone
  /\ (program = "server" /\ response # NoResponse) =>
       /\ initPc = "listening"
       /\ FirstCycleDone
       /\ response.route = "/api/health" => response.body.lastUpdate # NoDate
       /\ response.route \in {"/api/strikes", "/api/buoys"} =>
            response.body.updated # NoDate
  /\ Len(cycles) >= 2 => initPc = "listening" /\ FirstCycleDone

\* the first query, served right after the first cycle, and the timer's first
\* invocation under way
C23_Witness ==
  /\ response.route = "/api/health"
  /\ response.body.lastUpdate = 1
  /\ Len(cycles) = 2
  /\ Running(cycles[2])

----------------------------------------------------------------------------
(* C24 *)

----------------------------------------------------------------------------
(* C25 *)

\* item.snow['3h'] of a forecast item, undefined when the item has none
Snow3h(item) == Get(Get(item, "snow"), "3h")

\* no forecast item carries a negative snow amount
NonNegativeSnow(list) ==
  \A k \in 1..Len(list) : IsNum(Snow3h(list[k])) => Ge(Snow3h(list[k]), Z(0))

\* the positions of the items an accumulation up to `limit` hours counts
CountedUpTo(list, limit) ==
  {k \in 1..Len(list) :
     /\ Truthy(Snow3h(list[k]))
     /\ Le(Div(Add(list[k].dt, Z(-NowSec)), Z(3600)), Z(limit))}

ForecastLists ==
  {r[2].body.list : r \in {q \in OpenWeatherResponses : "list" \in DOMAIN q[2].body}}

\* C25: in every reading fetchOpenWeather returns, for forecast items with
\* non-negative snow amounts, snow24h <= snow48h: every item counted in the 24-hour
\* accumulation is counted in the 48-hour accumulation too, and both accumulations
\* are non-negative.
C25_Snow24AtMostSnow48 ==
  /\ \A list \in ForecastLists : CountedUpTo(list, 24) \subseteq CountedUpTo(list, 48)
  /\ \A k \in 1..Len(skiResults) :
       LET data == skiResults[k].weather
       IN (data.source = "openweather" /\ NonNegativeSnow(data.forecast)) =>
            /\ Ge(data.snow24h, Z(0))
            /\ Ge(data.snow48h, Z(0))
            /\ Le(data.snow24h, data.snow48h)

\* a reading from the mixed forecast: 300 mm within 24 hours (the item on the limit
\* and the past one), 600 mm within 48 hours
C25_Witness ==
  \E k \in 1..Len(skiResults) :
    LET data == skiResults[k].weather
    IN /\ data.source = "openweather"
       /\ Len(data.forecast) = 6
       /\ NonNegativeSnow(data.forecast)
       /\ data.snow24h = Div(Z(300), MmPerInch)
       /\ data.snow48h = Div(Z(600), MmPerInch)

====
